---- MODULE Spec2Model ----
(***************************************************************************)
(* Persistent red-black sequence (packer-jp/persistent-lazy-rbts).         *)
(*                                                                         *)
(* Two crates are modelled:                                                *)
(*   persistent_lazy_rbtree   (newer: Node::to_black, iter, from_iter)     *)
(*   persistent-lazy-rbtree   (older: no to_black)                         *)
(*                                                                         *)
(* A node is a record; an Rc<Node> is the record itself (nodes are never   *)
(* mutated, so sharing is invisible) except in the heap model further      *)
(* down, where an Rc is an address and sharing is explicit.                *)
(*                                                                         *)
(* A Rust panic (assert!, unreachable!(), Vec::remove out of bounds) is a  *)
(* record whose kind names the panic; it unwinds through every caller.     *)
(***************************************************************************)
EXTENDS Integers, Sequences, FiniteSets, TLC

\* ---------------------------------------------------------------- bounds
MaxLen == 5        \* elements held by the client in Spec
IterLen == 3       \* length of the sequences iterated in SpecIter
IterCalls == 7     \* next()/next_back() calls on one cursor in SpecIter
BulkLen == 4       \* length of the inputs of from_iter in SpecBulk
MaxVersions == 5   \* versions the client holds in SpecHeap
ShapeLen == 9      \* elements held by the client in SpecShape
OldLen == 5        \* elements held by the client in SpecOld
ValidLen == 9      \* leaves of the trees SpecValid starts from
Values == {1, 2}   \* element values in Spec
ShapeValues == {0} \* element values where only the tree shape matters

\* ------------------------------------------------------- enum Color (l.5)
Red == "Red"
Black == "Black"

\* ------------------------------------------------------------- panics
Unreachable == [kind |-> "Unreachable"]
OutOfRange == [kind |-> "OutOfRange"]

\* ------------------------------------------------------- enum Node (l.13)
Leaf(val) == [kind |-> "Leaf", val |-> val]

IsNode(n) == n.kind \in {"Leaf", "Tree"}

NodeColor(n) == IF n.kind = "Tree" THEN n.color ELSE Black

NodeRank(n) == IF n.kind = "Tree" THEN n.rank ELSE 0

NodeLen(n) == IF n.kind = "Tree" THEN n.len ELSE IF n.kind = "Leaf" THEN 1 ELSE 0

NodeLeft(n) == IF n.kind = "Tree" THEN n.left ELSE Unreachable

NodeRight(n) == IF n.kind = "Tree" THEN n.right ELSE Unreachable

\* Node::new; a panicked argument means the caller never got this far.
NodeNew(color, left, right) ==
    IF ~IsNode(left) THEN left
    ELSE IF ~IsNode(right) THEN right
    ELSE [kind |-> "Tree",
          color |-> color,
          rank |-> NodeRank(left) + (IF NodeColor(left) = Black THEN 1 ELSE 0),
          len |-> NodeLen(left) + NodeLen(right),
          left |-> left,
          right |-> right]

RECURSIVE NodeIndex(_, _)
NodeIndex(n, index) ==
    IF n.kind = "Leaf" THEN n.val
    ELSE IF index < NodeLen(n.left) THEN NodeIndex(n.left, index)
    ELSE NodeIndex(n.right, index - NodeLen(n.left))

ToBlack(src) ==
    IF NodeColor(src) = Red
    THEN NodeNew(Black, NodeLeft(src), NodeRight(src))
    ELSE src

RECURSIVE NodeMerge(_, _)
NodeMerge(left, right) ==
    IF NodeRank(left) < NodeRank(right) THEN
        LET cand == NodeMerge(left, NodeLeft(right)) IN
        IF /\ NodeColor(cand) = Red
           /\ NodeColor(NodeLeft(cand)) = Red
           /\ NodeColor(right) = Black
        THEN IF NodeColor(NodeRight(right)) = Black
             THEN NodeNew(Black,
                          NodeLeft(cand),
                          NodeNew(Red, NodeRight(cand), NodeRight(right)))
             ELSE NodeNew(Red,
                          NodeNew(Black, NodeLeft(cand), NodeRight(cand)),
                          NodeNew(Black,
                                  NodeLeft(NodeRight(right)),
                                  NodeRight(NodeRight(right))))
        ELSE NodeNew(NodeColor(right), cand, NodeRight(right))
    ELSE IF NodeRank(left) > NodeRank(right) THEN
        LET cand == NodeMerge(NodeRight(left), right) IN
        IF /\ NodeColor(left) = Black
           /\ NodeColor(NodeRight(cand)) = Red
           /\ NodeColor(cand) = Red
        THEN IF NodeColor(NodeLeft(left)) = Black
             THEN NodeNew(Black,
                          NodeNew(Red, NodeLeft(left), NodeLeft(cand)),
                          NodeRight(cand))
             ELSE NodeNew(Red,
                          NodeNew(Black,
                                  NodeLeft(NodeLeft(left)),
                                  NodeRight(NodeLeft(left))),
                          NodeNew(Black, NodeLeft(cand), NodeRight(cand)))
        ELSE NodeNew(NodeColor(left), NodeLeft(left), cand)
    ELSE NodeNew(Red, left, right)

\* Mutant: the left-descending case re-attaches the right child on the
\* wrong side.
RECURSIVE NodeSplitSwapped(_, _)
NodeSplitSwapped(tree, index) ==
    IF tree.kind # "Tree" THEN <<Unreachable, Unreachable>>
    ELSE IF index < NodeLen(tree.left) THEN
        LET p == NodeSplitSwapped(tree.left, index) IN
        <<p[1], ToBlack(NodeMerge(tree.right, p[2]))>>
    ELSE IF index > NodeLen(tree.left) THEN
        LET p == NodeSplitSwapped(tree.right, index - NodeLen(tree.left)) IN
        <<ToBlack(NodeMerge(tree.left, p[1])), p[2]>>
    ELSE <<ToBlack(tree.left), ToBlack(tree.right)>>

RECURSIVE NodeSplit(_, _)
NodeSplit(tree, index) ==
    IF tree.kind # "Tree" THEN <<Unreachable, Unreachable>>
    ELSE IF index < NodeLen(tree.left) THEN
        LET p == NodeSplit(tree.left, index) IN
        <<p[1], ToBlack(NodeMerge(p[2], tree.right))>>
    ELSE IF index > NodeLen(tree.left) THEN
        LET p == NodeSplit(tree.right, index - NodeLen(tree.left)) IN
        <<ToBlack(NodeMerge(tree.left, p[1])), p[2]>>
    ELSE <<ToBlack(tree.left), ToBlack(tree.right)>>

\* ---------------------------------------- struct PersistentLazyRBTree
None == [kind |-> "None"]

IsSeq(s) == s.kind = "Seq"

SeqFrom(root) == IF IsNode(root) THEN [kind |-> "Seq", root |-> root] ELSE root

SeqNew == [kind |-> "Seq", root |-> None]

SeqLen(s) == IF s.root.kind = "None" THEN 0 ELSE NodeLen(s.root)

SeqMerge(left, right) ==
    IF ~IsSeq(left) THEN left
    ELSE IF ~IsSeq(right) THEN right
    ELSE IF left.root.kind = "None" THEN right
    ELSE IF right.root.kind = "None" THEN left
    ELSE SeqFrom(ToBlack(NodeMerge(left.root, right.root)))

\* Mutant: the two fast paths for index 0 and index len are missing.
SeqSplitNoFastPath(s, index) ==
    IF ~(index <= SeqLen(s)) THEN <<OutOfRange, OutOfRange>>
    ELSE LET p == NodeSplit(s.root, index) IN
         IF IsNode(p[1]) /\ IsNode(p[2])
         THEN <<SeqFrom(p[1]), SeqFrom(p[2])>>
         ELSE <<Unreachable, Unreachable>>

SeqSplit(s, index) ==
    IF ~(index <= SeqLen(s)) THEN <<OutOfRange, OutOfRange>>
    ELSE IF index = 0 THEN <<SeqNew, s>>
    ELSE IF index = SeqLen(s) THEN <<s, SeqNew>>
    ELSE LET p == NodeSplit(s.root, index) IN
         IF IsNode(p[1]) /\ IsNode(p[2])
         THEN <<SeqFrom(p[1]), SeqFrom(p[2])>>
         ELSE <<Unreachable, Unreachable>>

\* Mutant: the new leaf is merged in front of the left part.
SeqInsertMisplaced(s, index, val) ==
    IF ~(index <= SeqLen(s)) THEN OutOfRange
    ELSE LET p == SeqSplit(s, index) IN
         SeqMerge(SeqMerge(SeqFrom(Leaf(val)), p[1]), p[2])

SeqInsert(s, index, val) ==
    IF ~(index <= SeqLen(s)) THEN OutOfRange
    ELSE LET p == SeqSplit(s, index) IN
         SeqMerge(SeqMerge(p[1], SeqFrom(Leaf(val))), p[2])

SeqErase(s, index) ==
    IF ~(index < SeqLen(s)) THEN OutOfRange
    ELSE LET p == SeqSplit(s, index) IN
         IF ~IsSeq(p[2]) THEN p[2]
         ELSE LET q == SeqSplit(p[2], 1) IN SeqMerge(p[1], q[2])

\* Index::index; the returned reference is wrapped so that it can stand
\* next to a panic.
SeqIndex(s, index) ==
    IF ~(index < SeqLen(s)) THEN OutOfRange
    ELSE [kind |-> "Ref", val |-> NodeIndex(s.root, index)]

\* ------------------------------------------------ reference Vec (tests)
VecInsert(vec, i, x) == SubSeq(vec, 1, i) \o <<x>> \o SubSeq(vec, i + 1, Len(vec))

VecRemove(vec, i) == SubSeq(vec, 1, i) \o SubSeq(vec, i + 2, Len(vec))

\* The elements of a sequence read through len() and [] as a caller does.
Elems(s) == [j \in 1..SeqLen(s) |-> SeqIndex(s, j - 1).val]

\* ------------------------------------------------ red-black invariants
RECURSIVE Leaves(_)
Leaves(n) == IF n.kind = "Tree" THEN Leaves(n.left) \o Leaves(n.right) ELSE <<n.val>>

RECURSIVE NoRedRed(_)
NoRedRed(n) ==
    n.kind = "Tree" =>
        /\ n.color = Red => NodeColor(n.left) = Black /\ NodeColor(n.right) = Black
        /\ NoRedRed(n.left)
        /\ NoRedRed(n.right)

\* Number of black internal nodes on every path below n, or -1 if two paths
\* differ; the count through the left child is what Node::new caches.
RECURSIVE BlackHeight(_)
BlackHeight(n) ==
    IF n.kind # "Tree" THEN 0
    ELSE LET hl == BlackHeight(n.left)
             hr == BlackHeight(n.right)
             viaLeft == hl + (IF NodeColor(n.left) = Black THEN 1 ELSE 0)
             viaRight == hr + (IF NodeColor(n.right) = Black THEN 1 ELSE 0)
         IN IF hl = -1 \/ hr = -1 \/ viaLeft # viaRight THEN -1 ELSE viaLeft

RECURSIVE CachesOK(_)
CachesOK(n) ==
    n.kind = "Tree" =>
        /\ n.rank = BlackHeight(n)
        /\ n.len = Len(Leaves(n))
        /\ CachesOK(n.left)
        /\ CachesOK(n.right)

NodeValid(n) ==
    /\ NodeColor(n) = Black
    /\ NoRedRed(n)
    /\ BlackHeight(n) # -1
    /\ CachesOK(n)

SeqValid(s) == s.root.kind # "None" => NodeValid(s.root)

\* ------------------------------------------------------------ state
VARIABLES
    a, b,            \* the two sequences the client holds
    va, vb,          \* the reference Vec kept next to each of them
    last,            \* the last call: operation, index, len before, outcome
    it, out,         \* SpecIter: the Iter struct over a, and what it returned
    items, res, pc,  \* SpecBulk: from_iter's pending input, its Vec, its position
    heap, versions   \* SpecHeap: the Rc allocations, and every root ever returned

clientVars == <<a, b, va, vb, last>>
iterVars == <<it, out>>
bulkVars == <<items, res, pc>>
heapVars == <<heap, versions>>
vars == <<clientVars, iterVars, bulkVars, heapVars>>

IterIdle == it = [begin |-> 0, end |-> 0] /\ out = <<>>
BulkIdle == items = <<>> /\ res = <<>> /\ pc = "idle"
HeapIdle == heap = <<>> /\ versions = <<>>

Call(op, idx, n, val, err) == [op |-> op, idx |-> idx, n |-> n, val |-> val, err |-> err]

ClientInit ==
    /\ a = SeqNew
    /\ b = SeqNew
    /\ va = <<>>
    /\ vb = <<>>
    /\ last = Call("new", 0, 0, 0, "none")
    /\ IterIdle
    /\ BulkIdle
    /\ HeapIdle

NewStep ==
    /\ a' = SeqNew
    /\ va' = <<>>
    /\ last' = Call("new", 0, 0, 0, "none")
    /\ UNCHANGED <<b, vb, iterVars, bulkVars, heapVars>>

InsertStep(L, V) ==
    /\ UNCHANGED <<iterVars, bulkVars, heapVars>>
    /\ \E i \in 0..(SeqLen(a) + 1), v \in V :
           /\ SeqLen(a) + SeqLen(b) < L
           /\ LET r == SeqInsert(a, i, v) IN
              IF IsSeq(r)
              THEN /\ a' = r
                   /\ va' = VecInsert(va, i, v)
                   /\ last' = Call("insert", i, SeqLen(a), v, "none")
                   /\ UNCHANGED <<b, vb>>
              ELSE /\ last' = Call("insert", i, SeqLen(a), v, r.kind)
                   /\ UNCHANGED <<a, b, va, vb>>

EraseStep ==
    /\ UNCHANGED <<iterVars, bulkVars, heapVars>>
    /\ \E i \in 0..SeqLen(a) :
           LET r == SeqErase(a, i) IN
           IF IsSeq(r)
           THEN /\ a' = r
                /\ va' = VecRemove(va, i)
                /\ last' = Call("erase", i, SeqLen(a), 0, "none")
                /\ UNCHANGED <<b, vb>>
           ELSE /\ last' = Call("erase", i, SeqLen(a), 0, r.kind)
                /\ UNCHANGED <<a, b, va, vb>>

SplitStep ==
    /\ UNCHANGED <<iterVars, bulkVars, heapVars>>
    /\ \E i \in 0..(SeqLen(a) + 1) :
           LET p == SeqSplit(a, i) IN
           IF IsSeq(p[1])
           THEN /\ a' = p[1]
                /\ b' = p[2]
                /\ va' = SubSeq(va, 1, i)
                /\ vb' = SubSeq(va, i + 1, Len(va))
                /\ last' = Call("split", i, SeqLen(a), 0, "none")
           ELSE /\ last' = Call("split", i, SeqLen(a), 0, p[1].kind)
                /\ UNCHANGED <<a, b, va, vb>>

MergeStep ==
    /\ UNCHANGED <<iterVars, bulkVars, heapVars>>
    /\ LET r == SeqMerge(a, b) IN
       IF IsSeq(r)
       THEN /\ a' = r
            /\ b' = SeqNew
            /\ va' = va \o vb
            /\ vb' = <<>>
            /\ last' = Call("merge", 0, SeqLen(a), 0, "none")
       ELSE /\ last' = Call("merge", 0, SeqLen(a), 0, r.kind)
            /\ UNCHANGED <<a, b, va, vb>>

IndexStep ==
    /\ UNCHANGED <<iterVars, bulkVars, heapVars>>
    /\ \E i \in 0..SeqLen(a) :
           LET r == SeqIndex(a, i) IN
           /\ last' = IF r.kind = "Ref"
                      THEN Call("index", i, SeqLen(a), r.val, "none")
                      ELSE Call("index", i, SeqLen(a), 0, r.kind)
           /\ UNCHANGED <<a, b, va, vb>>

Init == ClientInit

Next ==
    \/ NewStep
    \/ InsertStep(MaxLen, Values)
    \/ EraseStep
    \/ SplitStep
    \/ MergeStep
    \/ IndexStep

Spec == Init /\ [][Next]_vars

InitShape == ClientInit

NextShape ==
    \/ NewStep
    \/ InsertStep(ShapeLen, ShapeValues)
    \/ EraseStep
    \/ SplitStep
    \/ MergeStep
    \/ IndexStep

SpecShape == InitShape /\ [][NextShape]_vars

\* ------------------------------------------- older crate (no to_black)
\* Node::{new, color, rank, len, left, right, index, merge} are the same
\* code in both crates; only split and the facade differ.
RECURSIVE OldNodeSplit(_, _)
OldNodeSplit(tree, index) ==
    IF tree.kind # "Tree" THEN <<Unreachable, Unreachable>>
    ELSE IF index < NodeLen(tree.left) THEN
        LET p == OldNodeSplit(tree.left, index) IN
        <<p[1], NodeMerge(p[2], tree.right)>>
    ELSE IF index > NodeLen(tree.left) THEN
        LET p == OldNodeSplit(tree.right, index - NodeLen(tree.left)) IN
        <<NodeMerge(tree.left, p[1]), p[2]>>
    ELSE <<tree.left, tree.right>>

OldSeqMerge(left, right) ==
    IF ~IsSeq(left) THEN left
    ELSE IF ~IsSeq(right) THEN right
    ELSE IF left.root.kind = "None" THEN right
    ELSE IF right.root.kind = "None" THEN left
    ELSE LET root == NodeMerge(left.root, right.root) IN
         SeqFrom(NodeNew(Black, NodeLeft(root), NodeRight(root)))

OldSeqSplit(s, index) ==
    IF ~(index <= SeqLen(s)) THEN <<OutOfRange, OutOfRange>>
    ELSE IF index = 0 THEN <<SeqNew, s>>
    ELSE IF index = SeqLen(s) THEN <<s, SeqNew>>
    ELSE LET p == OldNodeSplit(s.root, index) IN
         IF IsNode(p[1]) /\ IsNode(p[2])
         THEN <<SeqFrom(p[1]), SeqFrom(p[2])>>
         ELSE <<Unreachable, Unreachable>>

OldSeqInsert(s, index, val) ==
    IF ~(index <= SeqLen(s)) THEN OutOfRange
    ELSE LET p == OldSeqSplit(s, index) IN
         OldSeqMerge(OldSeqMerge(p[1], SeqFrom(Leaf(val))), p[2])

OldSeqErase(s, index) ==
    IF ~(index < SeqLen(s)) THEN OutOfRange
    ELSE LET p == OldSeqSplit(s, index) IN
         IF ~IsSeq(p[2]) THEN p[2]
         ELSE LET q == OldSeqSplit(p[2], 1) IN OldSeqMerge(p[1], q[2])

OldInsertStep(L, V) ==
    /\ UNCHANGED <<iterVars, bulkVars, heapVars>>
    /\ \E i \in 0..(SeqLen(a) + 1), v \in V :
           /\ SeqLen(a) + SeqLen(b) < L
           /\ LET r == OldSeqInsert(a, i, v) IN
              IF IsSeq(r)
              THEN /\ a' = r
                   /\ va' = VecInsert(va, i, v)
                   /\ last' = Call("insert", i, SeqLen(a), v, "none")
                   /\ UNCHANGED <<b, vb>>
              ELSE /\ last' = Call("insert", i, SeqLen(a), v, r.kind)
                   /\ UNCHANGED <<a, b, va, vb>>

OldEraseStep ==
    /\ UNCHANGED <<iterVars, bulkVars, heapVars>>
    /\ \E i \in 0..SeqLen(a) :
           LET r == OldSeqErase(a, i) IN
           IF IsSeq(r)
           THEN /\ a' = r
                /\ va' = VecRemove(va, i)
                /\ last' = Call("erase", i, SeqLen(a), 0, "none")
                /\ UNCHANGED <<b, vb>>
           ELSE /\ last' = Call("erase", i, SeqLen(a), 0, r.kind)
                /\ UNCHANGED <<a, b, va, vb>>

OldSplitStep ==
    /\ UNCHANGED <<iterVars, bulkVars, heapVars>>
    /\ \E i \in 0..(SeqLen(a) + 1) :
           LET p == OldSeqSplit(a, i) IN
           IF IsSeq(p[1])
           THEN /\ a' = p[1]
                /\ b' = p[2]
                /\ va' = SubSeq(va, 1, i)
                /\ vb' = SubSeq(va, i + 1, Len(va))
                /\ last' = Call("split", i, SeqLen(a), 0, "none")
           ELSE /\ last' = Call("split", i, SeqLen(a), 0, p[1].kind)
                /\ UNCHANGED <<a, b, va, vb>>

OldMergeStep ==
    /\ UNCHANGED <<iterVars, bulkVars, heapVars>>
    /\ LET r == OldSeqMerge(a, b) IN
       IF IsSeq(r)
       THEN /\ a' = r
            /\ b' = SeqNew
            /\ va' = va \o vb
            /\ vb' = <<>>
            /\ last' = Call("merge", 0, SeqLen(a), 0, "none")
       ELSE /\ last' = Call("merge", 0, SeqLen(a), 0, r.kind)
            /\ UNCHANGED <<a, b, va, vb>>

InitOld == ClientInit

NextOld ==
    \/ NewStep
    \/ OldInsertStep(OldLen, ShapeValues)
    \/ OldEraseStep
    \/ OldSplitStep
    \/ OldMergeStep
    \/ IndexStep

SpecOld == InitOld /\ [][NextOld]_vars

\* ------------------------------------ split applied to any valid tree
Blackness(c) == IF c = Black THEN 1 ELSE 0

\* Every tree with n leaves, root colour c and rank h that satisfies the
\* red rule, the black-balance rule and the size rule of the data model.
RECURSIVE ValidTrees(_, _, _)
ValidTrees(n, c, h) ==
    IF h < 0 \/ n < 2 ^ h THEN {}
    ELSE IF n = 1 THEN (IF c = Black /\ h = 0 THEN {Leaf(0)} ELSE {})
    ELSE UNION { UNION { LET ls == ValidTrees(k, cc[1], h - Blackness(cc[1]))
                             rs == IF ls = {} THEN {}
                                   ELSE ValidTrees(n - k, cc[2], h - Blackness(cc[2]))
                         IN { NodeNew(c, l, r) : l \in ls, r \in rs } :
                         cc \in IF c = Red THEN {<<Black, Black>>}
                                ELSE {Red, Black} \X {Red, Black} } :
                 k \in 1..(n - 1) }

ValidRoots(maxLeaves) ==
    UNION { ValidTrees(n, Black, h) : n \in 1..maxLeaves, h \in 0..maxLeaves }

InitValid ==
    /\ a \in { SeqFrom(t) : t \in ValidRoots(ValidLen) }
    /\ b = SeqNew
    /\ va = Elems(a)
    /\ vb = <<>>
    /\ last = Call("new", 0, SeqLen(a), 0, "none")
    /\ IterIdle
    /\ BulkIdle
    /\ HeapIdle

NextValid == last.op = "new" /\ SplitStep

SpecValid == InitValid /\ [][NextValid]_vars

\* ------------------------------------------------------ struct Iter
\* The test's first loop: rbtree = rbtree.insert(rbtree.len(), x).
RECURSIVE Pushed(_)
Pushed(xs) ==
    IF xs = <<>> THEN SeqNew
    ELSE LET front == Pushed(SubSeq(xs, 1, Len(xs) - 1)) IN
         SeqInsert(front, SeqLen(front), xs[Len(xs)])

Lists(n, V) == UNION { [1..k -> V] : k \in 0..n }

SeqIter(s) == [begin |-> 0, end |-> SeqLen(s)]

NoItem(call) == [call |-> call, kind |-> "None", pos |-> -1, val |-> 0]

Item(call, pos, ref) == [call |-> call, kind |-> "Some", pos |-> pos, val |-> ref.val]

IterNext(tree, iter) ==
    IF iter.begin < SeqLen(tree)
    THEN LET ref == SeqIndex(tree, iter.begin) IN
         IF ref.kind = "Ref"
         THEN [iter |-> [iter EXCEPT !.begin = iter.begin + 1],
               ret |-> Item("next", iter.begin, ref)]
         ELSE [iter |-> iter, ret |-> [NoItem("next") EXCEPT !.kind = ref.kind]]
    ELSE [iter |-> iter, ret |-> NoItem("next")]

\* Mutant: the last step towards the front is cut off.
IterNextBackShort(tree, iter) ==
    IF iter.end > 1
    THEN LET ref == SeqIndex(tree, iter.end - 1) IN
         IF ref.kind = "Ref"
         THEN [iter |-> [iter EXCEPT !.end = iter.end - 1],
               ret |-> Item("next_back", iter.end - 1, ref)]
         ELSE [iter |-> [iter EXCEPT !.end = iter.end - 1],
               ret |-> [NoItem("next_back") EXCEPT !.kind = ref.kind]]
    ELSE [iter |-> iter, ret |-> NoItem("next_back")]

IterNextBack(tree, iter) ==
    IF iter.end > 0
    THEN LET ref == SeqIndex(tree, iter.end - 1) IN
         IF ref.kind = "Ref"
         THEN [iter |-> [iter EXCEPT !.end = iter.end - 1],
               ret |-> Item("next_back", iter.end - 1, ref)]
         ELSE [iter |-> [iter EXCEPT !.end = iter.end - 1],
               ret |-> [NoItem("next_back") EXCEPT !.kind = ref.kind]]
    ELSE [iter |-> iter, ret |-> NoItem("next_back")]

InitIter ==
    /\ \E xs \in Lists(IterLen, Values) :
           /\ a = Pushed(xs)
           /\ va = xs
    /\ b = SeqNew
    /\ vb = <<>>
    /\ last = Call("iter", 0, SeqLen(a), 0, "none")
    /\ it = SeqIter(a)
    /\ out = <<>>
    /\ BulkIdle
    /\ HeapIdle

NextCall ==
    /\ Len(out) < IterCalls
    /\ LET r == IterNext(a, it) IN
       /\ it' = r.iter
       /\ out' = Append(out, r.ret)
    /\ UNCHANGED <<clientVars, bulkVars, heapVars>>

NextBackCall ==
    /\ Len(out) < IterCalls
    /\ LET r == IterNextBack(a, it) IN
       /\ it' = r.iter
       /\ out' = Append(out, r.ret)
    /\ UNCHANGED <<clientVars, bulkVars, heapVars>>

NextIter ==
    \/ NextCall
    \/ NextBackCall

SpecIter == InitIter /\ [][NextIter]_vars

\* ------------------------------------------- FromIterator::from_iter
VecRemovePanic == [kind |-> "VecRemove"]

\* The while-let loop of the for body: merge cur into the top of res for
\* as long as the two have the same length, then push it.
RECURSIVE Collapse(_, _)
Collapse(stack, cur) ==
    IF stack # <<>> /\ SeqLen(stack[Len(stack)]) = SeqLen(cur)
    THEN Collapse(SubSeq(stack, 1, Len(stack) - 1), SeqMerge(stack[Len(stack)], cur))
    ELSE Append(stack, cur)

InitBulk ==
    /\ va \in Lists(BulkLen, Values)
    /\ items = va
    /\ res = <<>>
    /\ pc = "for"
    /\ a = SeqNew
    /\ b = SeqNew
    /\ vb = <<>>
    /\ last = Call("from_iter", 0, 0, 0, "running")
    /\ IterIdle
    /\ HeapIdle

BulkItem ==
    /\ pc = "for"
    /\ items # <<>>
    /\ res' = Collapse(res, SeqInsert(SeqNew, 0, Head(items)))
    /\ items' = Tail(items)
    /\ UNCHANGED <<pc, clientVars, iterVars, heapVars>>

BulkEndFor ==
    /\ pc = "for"
    /\ items = <<>>
    /\ pc' = "while"
    /\ UNCHANGED <<items, res, clientVars, iterVars, heapVars>>

BulkDrain ==
    /\ pc = "while"
    /\ Len(res) >= 2
    /\ LET right == res[Len(res)]
           left == res[Len(res) - 1]
       IN res' = Append(SubSeq(res, 1, Len(res) - 2), SeqMerge(left, right))
    /\ UNCHANGED <<items, pc, clientVars, iterVars, heapVars>>

BulkReturn ==
    /\ pc = "while"
    /\ Len(res) < 2
    /\ pc' = "done"
    /\ IF res = <<>>
       THEN /\ last' = Call("from_iter", 0, 0, 0, VecRemovePanic.kind)
            /\ UNCHANGED <<a, res>>
       ELSE /\ a' = res[1]
            /\ res' = Tail(res)
            /\ last' = Call("from_iter", 0, 0, 0, "none")
    /\ UNCHANGED <<b, va, vb, items, iterVars, heapVars>>

NextBulk ==
    \/ BulkItem
    \/ BulkEndFor
    \/ BulkDrain
    \/ BulkReturn

SpecBulk == InitBulk /\ [][NextBulk]_vars

\* ------------------------------------------------- Rc<Node> as a heap
\* The same code with sharing made explicit: heap[p] is the node behind
\* the Rc with address p, Rc::new appends a cell, Rc::clone copies the
\* address, and 0 is the root of the empty sequence (Option::None).  Only
\* in-range calls are made here, so the facade's assert!s are left out.
Cell(h, p) == IF p \in 1..Len(h) THEN h[p] ELSE Unreachable

HColor(h, p) == IF Cell(h, p).kind = "Tree" THEN h[p].color ELSE Black

HRank(h, p) == IF Cell(h, p).kind = "Tree" THEN h[p].rank ELSE 0

HLen(h, p) ==
    IF Cell(h, p).kind = "Tree" THEN h[p].len
    ELSE IF Cell(h, p).kind = "Leaf" THEN 1 ELSE 0

HLeft(h, p) == IF Cell(h, p).kind = "Tree" THEN h[p].left ELSE 0

HRight(h, p) == IF Cell(h, p).kind = "Tree" THEN h[p].right ELSE 0

RcNew(h, cell) == [h |-> Append(h, cell), p |-> Len(h) + 1]

HNew(h, color, left, right) ==
    IF left = 0 \/ right = 0 THEN [h |-> h, p |-> 0]
    ELSE RcNew(h, [kind |-> "Tree",
                   color |-> color,
                   rank |-> HRank(h, left) + (IF HColor(h, left) = Black THEN 1 ELSE 0),
                   len |-> HLen(h, left) + HLen(h, right),
                   left |-> left,
                   right |-> right])

RECURSIVE HIndex(_, _, _)
HIndex(h, p, index) ==
    IF h[p].kind = "Leaf" THEN h[p].val
    ELSE IF index < HLen(h, h[p].left) THEN HIndex(h, h[p].left, index)
    ELSE HIndex(h, h[p].right, index - HLen(h, h[p].left))

\* Mutant: a red root is recoloured where it is instead of being rebuilt.
HToBlackInPlace(h, src) ==
    IF HColor(h, src) = Red
    THEN [h |-> [h EXCEPT ![src].color = Black], p |-> src]
    ELSE [h |-> h, p |-> src]

HToBlack(h, src) ==
    IF HColor(h, src) = Red
    THEN HNew(h, Black, HLeft(h, src), HRight(h, src))
    ELSE [h |-> h, p |-> src]

\* let x = v; K(x): v is evaluated once, as a Rust let binding is.
Bind(v, K(_)) == CHOOSE r \in { K(x) : x \in {v} } : TRUE

\* Node::merge after the recursive call, left.rank() < right.rank().
HMergeIntoLeft(h1, cand, right) ==
    IF /\ HColor(h1, cand) = Red
       /\ HColor(h1, HLeft(h1, cand)) = Red
       /\ HColor(h1, right) = Black
    THEN IF HColor(h1, HRight(h1, right)) = Black
         THEN LET inner == HNew(h1, Red, HRight(h1, cand), HRight(h1, right)) IN
              HNew(inner.h, Black, HLeft(h1, cand), inner.p)
         ELSE LET x == HNew(h1, Black, HLeft(h1, cand), HRight(h1, cand))
                  y == HNew(x.h, Black,
                            HLeft(h1, HRight(h1, right)),
                            HRight(h1, HRight(h1, right)))
              IN HNew(y.h, Red, x.p, y.p)
    ELSE HNew(h1, HColor(h1, right), cand, HRight(h1, right))

\* Node::merge after the recursive call, left.rank() > right.rank().
HMergeIntoRight(h1, left, cand) ==
    IF /\ HColor(h1, left) = Black
       /\ HColor(h1, HRight(h1, cand)) = Red
       /\ HColor(h1, cand) = Red
    THEN IF HColor(h1, HLeft(h1, left)) = Black
         THEN LET inner == HNew(h1, Red, HLeft(h1, left), HLeft(h1, cand)) IN
              HNew(inner.h, Black, inner.p, HRight(h1, cand))
         ELSE LET x == HNew(h1, Black,
                            HLeft(h1, HLeft(h1, left)),
                            HRight(h1, HLeft(h1, left)))
                  y == HNew(x.h, Black, HLeft(h1, cand), HRight(h1, cand))
              IN HNew(y.h, Red, x.p, y.p)
    ELSE HNew(h1, HColor(h1, left), HLeft(h1, left), cand)

RECURSIVE HMerge(_, _, _)
HMerge(h, left, right) ==
    IF HRank(h, left) < HRank(h, right) THEN
        Bind(HMerge(h, left, HLeft(h, right)),
             LAMBDA c : HMergeIntoLeft(c.h, c.p, right))
    ELSE IF HRank(h, left) > HRank(h, right) THEN
        Bind(HMerge(h, HRight(h, left), right),
             LAMBDA c : HMergeIntoRight(c.h, left, c.p))
    ELSE HNew(h, Red, left, right)

\* to_black(&merge(left, right))
HMergeBlack(h, left, right) ==
    Bind(HMerge(h, left, right), LAMBDA m : HToBlack(m.h, m.p))

RECURSIVE HSplit(_, _, _)
HSplit(h, tree, index) ==
    IF Cell(h, tree).kind # "Tree" THEN [h |-> h, l |-> 0, r |-> 0]
    ELSE IF index < HLen(h, h[tree].left) THEN
        Bind(HSplit(h, h[tree].left, index),
             LAMBDA s : Bind(HMergeBlack(s.h, s.r, h[tree].right),
                             LAMBDA t : [h |-> t.h, l |-> s.l, r |-> t.p]))
    ELSE IF index > HLen(h, h[tree].left) THEN
        Bind(HSplit(h, h[tree].right, index - HLen(h, h[tree].left)),
             LAMBDA s : Bind(HMergeBlack(s.h, h[tree].left, s.l),
                             LAMBDA t : [h |-> t.h, l |-> t.p, r |-> s.r]))
    ELSE LET x == HToBlack(h, h[tree].left)
             y == HToBlack(x.h, h[tree].right)
         IN [h |-> y.h, l |-> x.p, r |-> y.p]

HSeqLen(h, root) == IF root = 0 THEN 0 ELSE HLen(h, root)

HSeqMerge(h, left, right) ==
    IF left = 0 THEN [h |-> h, p |-> right]
    ELSE IF right = 0 THEN [h |-> h, p |-> left]
    ELSE HMergeBlack(h, left, right)

HSeqSplit(h, root, index) ==
    IF index = 0 THEN [h |-> h, l |-> 0, r |-> root]
    ELSE IF index = HSeqLen(h, root) THEN [h |-> h, l |-> root, r |-> 0]
    ELSE HSplit(h, root, index)

HSeqInsert(h, root, index, val) ==
    Bind(HSeqSplit(h, root, index),
         LAMBDA s : Bind(RcNew(s.h, Leaf(val)),
                         LAMBDA leaf : Bind(HSeqMerge(leaf.h, s.l, leaf.p),
                                            LAMBDA m : HSeqMerge(m.h, m.p, s.r))))

HSeqErase(h, root, index) ==
    Bind(HSeqSplit(h, root, index),
         LAMBDA s : Bind(HSeqSplit(s.h, s.r, 1),
                         LAMBDA t : HSeqMerge(t.h, s.l, t.r)))

HElems(h, root) == [j \in 1..HSeqLen(h, root) |-> HIndex(h, root, j - 1)]

\* The addresses a root keeps alive.
RECURSIVE Reach(_, _)
Reach(h, p) ==
    IF Cell(h, p).kind = "Tree" THEN {p} \cup Reach(h, h[p].left) \cup Reach(h, h[p].right)
    ELSE IF p = 0 THEN {} ELSE {p}

InitHeap ==
    /\ a = SeqNew
    /\ b = SeqNew
    /\ va = <<>>
    /\ vb = <<>>
    /\ last = Call("new", 0, 0, 0, "none")
    /\ IterIdle
    /\ BulkIdle
    /\ heap = <<>>
    /\ versions = <<0>>

HInsertStep ==
    /\ Len(versions) < MaxVersions
    /\ \E k \in 1..Len(versions), v \in Values :
           \E i \in 0..HSeqLen(heap, versions[k]) :
               LET r == HSeqInsert(heap, versions[k], i, v) IN
               /\ heap' = r.h
               /\ versions' = Append(versions, r.p)
    /\ UNCHANGED <<clientVars, iterVars, bulkVars>>

HEraseStep ==
    /\ Len(versions) < MaxVersions
    /\ \E k \in 1..Len(versions) :
           \E i \in 0..(HSeqLen(heap, versions[k]) - 1) :
               LET r == HSeqErase(heap, versions[k], i) IN
               /\ heap' = r.h
               /\ versions' = Append(versions, r.p)
    /\ UNCHANGED <<clientVars, iterVars, bulkVars>>

HSplitStep ==
    /\ Len(versions) < MaxVersions
    /\ \E k \in 1..Len(versions) :
           \E i \in 0..HSeqLen(heap, versions[k]) :
               LET r == HSeqSplit(heap, versions[k], i) IN
               /\ heap' = r.h
               /\ versions' = versions \o <<r.l, r.r>>
    /\ UNCHANGED <<clientVars, iterVars, bulkVars>>

HMergeStep ==
    /\ Len(versions) < MaxVersions
    /\ \E k, m \in 1..Len(versions) :
           LET r == HSeqMerge(heap, versions[k], versions[m]) IN
           /\ heap' = r.h
           /\ versions' = Append(versions, r.p)
    /\ UNCHANGED <<clientVars, iterVars, bulkVars>>

NextHeap ==
    \/ HInsertStep
    \/ HEraseStep
    \/ HSplitStep
    \/ HMergeStep

SpecHeap == InitHeap /\ [][NextHeap]_vars

\* C1: in the newer crate every sequence the client holds is empty or a
\* tree with a black root, no red node with a red child, equal black counts
\* on all paths below every node, and correct cached rank and len.
C1_Valid == SeqValid(a) /\ SeqValid(b)

\* C2: under insert and erase the sequence and the reference Vec agree in
\* length and at every position.
C2_RefinesVec ==
    /\ SeqLen(a) = Len(va)
    /\ \A j \in 0..(Len(va) - 1) : SeqIndex(a, j) = [kind |-> "Ref", val |-> va[j + 1]]
    /\ last.op = "insert" /\ last.err = "none" => SeqIndex(a, last.idx).val = last.val

C2_Witness ==
    /\ last.op = "erase"
    /\ last.err = "none"
    /\ 0 < last.idx
    /\ last.idx < last.n - 1
    /\ Cardinality({va[j] : j \in 1..Len(va)}) = 2

\* C3: split(s, i) returns the first i elements and the rest, with the
\* empty sequence on one side for i = 0 and i = len, and merging the two
\* parts gives s back; merge(x, y) holds x's elements followed by y's and
\* has length len(x) + len(y).
C3_SplitMerge ==
    [][ /\ (last'.op = "split" /\ last'.err = "none") =>
              /\ Elems(a') = SubSeq(Elems(a), 1, last'.idx)
              /\ Elems(b') = SubSeq(Elems(a), last'.idx + 1, SeqLen(a))
              /\ last'.idx = 0 => a' = SeqNew /\ b' = a
              /\ last'.idx = SeqLen(a) => a' = a /\ b' = SeqNew
              /\ Elems(SeqMerge(a', b')) = Elems(a)
        /\ last'.op = "merge" =>
              /\ last'.err = "none"
              /\ Elems(a') = Elems(a) \o Elems(b)
              /\ SeqLen(a') = SeqLen(a) + SeqLen(b)
      ]_vars

C3_Witness ==
    /\ last.op = "split"
    /\ last.err = "none"
    /\ 1 < last.idx
    /\ last.idx < last.n - 1
    /\ Elems(a) # Elems(b)

\* C4: no operation changes a node that already exists, and every version
\* the client still holds keeps its length and its elements.
C4_Persistent ==
    [][ /\ \A p \in 1..Len(heap) : Len(heap') >= p /\ heap'[p] = heap[p]
        /\ \A k \in 1..Len(versions) :
              /\ versions'[k] = versions[k]
              /\ HSeqLen(heap', versions[k]) = HSeqLen(heap, versions[k])
              /\ HElems(heap', versions[k]) = HElems(heap, versions[k])
      ]_vars

\* Two held versions with different elements share a node.
C4_Witness ==
    \E j, k \in 1..Len(versions) :
        /\ HElems(heap, versions[j]) # HElems(heap, versions[k])
        /\ HSeqLen(heap, versions[j]) >= 3
        /\ \E p \in Reach(heap, versions[j]) \cap Reach(heap, versions[k]) :
               heap[p].kind = "Tree"

\* C5: index and erase abort exactly when i >= len, insert and split
\* exactly when i > len, new and merge never abort, and no unreachable!()
\* is ever hit.
C5_OnlyOutOfRange ==
    /\ last.err \in {"none", "OutOfRange"}
    /\ last.op \in {"index", "erase"} => (last.err = "OutOfRange" <=> last.idx >= last.n)
    /\ last.op \in {"insert", "split"} => (last.err = "OutOfRange" <=> last.idx > last.n)
    /\ last.op \in {"new", "merge"} => last.err = "none"

C5_Witness ==
    /\ last.op = "erase"
    /\ last.err = "OutOfRange"
    /\ last.idx = last.n
    /\ last.n >= 4

\* C6: from_iter never fails, the empty input included, and returns a
\* sequence element-wise identical to pushing the values one by one with
\* insert(seq, len(seq), v).
C6_FromIter ==
    pc = "done" =>
        /\ last.err = "none"
        /\ SeqLen(a) = SeqLen(Pushed(va))
        /\ Elems(a) = Elems(Pushed(va))

\* Every call made on the cursor so far was this method.
OnlyCalls(call) == \A k \in 1..Len(out) : out[k].call = call

\* C7: next() alone yields s[0], ..., s[len-1] and then None for ever;
\* next_back() alone yields s[len-1], ..., s[0] and then None for ever.
C7_IterationOrder ==
    /\ OnlyCalls("next") =>
          \A k \in 1..Len(out) :
              out[k] = IF k <= SeqLen(a)
                       THEN Item("next", k - 1, SeqIndex(a, k - 1))
                       ELSE NoItem("next")
    /\ OnlyCalls("next_back") =>
          \A k \in 1..Len(out) :
              out[k] = IF k <= SeqLen(a)
                       THEN Item("next_back", SeqLen(a) - k, SeqIndex(a, SeqLen(a) - k))
                       ELSE NoItem("next_back")

C7_Witness ==
    /\ OnlyCalls("next_back")
    /\ SeqLen(a) = 3
    /\ Len(out) = 5
    /\ Elems(a) = <<1, 2, 2>>

\* The calls that returned Some.
Yielded == { k \in 1..Len(out) : out[k].kind = "Some" }

\* C9: under any interleaving of next() and next_back() the cursor stays
\* inside its window: begin never passes end, no position is yielded
\* twice, and at most len(s) elements are yielded.
C9_Window ==
    /\ it.begin <= it.end
    /\ \A j, k \in Yielded : j # k => out[j].pos # out[k].pos
    /\ Cardinality(Yielded) <= SeqLen(a)

\* C8: split of any valid tree at 0 < i < len returns two valid trees.
C8_SplitValid == last.op = "split" => SeqValid(a) /\ SeqValid(b)

\* C10: in the older crate every non-empty sequence handed back to the
\* caller has a black root and no red node with a red child.
C10_OldRoot ==
    \A s \in {a, b} :
        s.root.kind # "None" => NodeColor(s.root) = Black /\ NoRedRed(s.root)

\* Every tree SpecValid starts from satisfies the invariants.
InputsValid == last.op = "new" => SeqValid(a)

\* from_iter on a non-empty input returns the pushed sequence.
FromIterNonEmpty ==
    pc = "done" /\ va # <<>> =>
        /\ last.err = "none"
        /\ SeqValid(a)
        /\ SeqLen(a) = SeqLen(Pushed(va))
        /\ Elems(a) = Elems(Pushed(va))

====
